---- MODULE Spec2Model ----
(***************************************************************************)
(* CSSHTMLHeaderPreprocessor (nbconvert/preprocessors/csshtmlheader.py).   *)
(*                                                                         *)
(* One preprocessor instance, its cached hash of the notebook's default    *)
(* custom.css, and the files and the import it looks at on every call of   *)
(* preprocess(nb, resources).                                              *)
(*                                                                         *)
(* A file is [kind, bytes]: kind "missing" (no such file), "unreadable"    *)
(* (os.path.isfile is true, open() raises) or "file".  Bytes are the       *)
(* tokens "a" (any byte that is no line ending), "CR" and "LF".            *)
(* A Python dict is a record of its keys; a key that is not in the dict    *)
(* holds Missing.                                                          *)
(***************************************************************************)
EXTENDS Integers, Sequences, FiniteSets, TLC

VARIABLES
    universalNewlines,   \* open(filename) translates line endings (Python 3) or not (Python 2, POSIX)
    sheetReadable,       \* nbconvert/resources/style.min.css can be opened
    static_files_path,   \* `from notebook import DEFAULT_STATIC_FILES_PATH` gives a path
    default_css,         \* the file DEFAULT_STATIC_FILES_PATH/custom/custom.css
    custom_css,          \* the file <config_dir>/custom/custom.css
    default_css_hash,    \* self._default_css_hash
    hashed_from,         \* history: the bytes of default_css the cached hash was computed from
    default_hash_count,  \* history: how often _hash was applied to default_css
    resources,           \* the dict handed to the last call, as the call left it
    call,                \* the last call, as its caller saw it
    reference            \* history (SpecDet only): an earlier successful call, kept to compare with

vars == << universalNewlines, sheetReadable, static_files_path, default_css,
           custom_css, default_css_hash, hashed_from, default_hash_count,
           resources, call, reference >>

env == << universalNewlines, sheetReadable, static_files_path, default_css, custom_css >>

------------------------------------------------------------------------------
(* Bounds and value spaces *)

MaxLen == 1

Bytes == {"a", "CR", "LF"}

RECURSIVE SeqsUpTo(_)
SeqsUpTo(n) ==
    IF n = 0 THEN {<< >>}
    ELSE LET shorter == SeqsUpTo(n - 1)
         IN  shorter \cup {Append(s, b) : s \in {t \in shorter : Len(t) = n - 1}, b \in Bytes}

Contents == SeqsUpTo(MaxLen)

NoFile     == [kind |-> "missing",    bytes |-> << >>]
Unreadable == [kind |-> "unreadable", bytes |-> << >>]
FileOf(bs) == [kind |-> "file",       bytes |-> bs]

Files == {NoFile, Unreadable} \cup {FileOf(bs) : bs \in Contents}

\* self._default_css_hash = None; every digest is positive
None == 0

Missing == "<missing>"

\* io.open(sheet_filename, encoding='utf-8').read()
STYLE_MIN_CSS == "style.min.css"

\* highlight_class = Unicode('.highlight', config=True)
highlight_class == ".highlight"

\* HtmlFormatter().get_style_defs(cls): a pure function of the class
get_style_defs(cls) == << "pygments", cls >>

------------------------------------------------------------------------------
(* Reading and hashing *)

\* Universal newlines of a text-mode read: CR LF and a lone CR become LF.
RECURSIVE Translate(_)
Translate(bs) ==
    IF bs = << >> THEN << >>
    ELSE IF Head(bs) = "CR"
         THEN IF Len(bs) >= 2 /\ bs[2] = "LF"
              THEN << "LF" >> \o Translate(SubSeq(bs, 3, Len(bs)))
              ELSE << "LF" >> \o Translate(Tail(bs))
         ELSE << Head(bs) >> \o Translate(Tail(bs))

\* io.open(custom_css_filename, encoding='utf-8').read(): io.open always
\* reads with universal newlines; the three bytes are ASCII.
Utf8Read(bs) == Translate(bs)

\* str_to_bytes(open(filename).read()): a text-mode read, encoded again.
TextModeRead(bs) == IF universalNewlines THEN Translate(bs) ELSE bs

Code(b) == CASE b = "a" -> 1 [] b = "CR" -> 2 [] b = "LF" -> 3

\* hashlib.md5().update(data).digest(): a digest that is equal for equal
\* data and, on data this short, different for different data.
RECURSIVE md5(_)
md5(data) ==
    IF data = << >> THEN 1
    ELSE 4 * md5(SubSeq(data, 1, Len(data) - 1)) + Code(data[Len(data)])

\* _hash(filename) of a file that can be opened
Hash(bs) == md5(TextModeRead(bs))

------------------------------------------------------------------------------
(* The resources dict *)

NoInlining    == [present |-> FALSE, js |-> Missing, has_css |-> FALSE, css |-> << >>]
EmptyInlining == [present |-> TRUE,  js |-> Missing, has_css |-> FALSE, css |-> << >>]
\* what an earlier exporter run may have left under resources['inlining']
StaleInlining == [present |-> TRUE,  js |-> "require.js", has_css |-> TRUE, css |-> << "stale" >>]

NoResources == [config_dir |-> Missing, metadata |-> Missing, inlining |-> NoInlining]

\* the dicts a caller may pass: with or without 'config_dir', with or
\* without an 'inlining' entry from before
ResourcesInputs ==
    {[config_dir |-> c, metadata |-> "meta", inlining |-> i] :
        c \in {Missing, "cfg"}, i \in {NoInlining, StaleInlining}}

Notebooks == {"nb"}

------------------------------------------------------------------------------
(* _generate_header, statement by statement *)

\* variant: the isfile test left out
IsFileUnchecked(f) == TRUE

\* os.path.isfile(custom_css_filename)
IsFile(f) == f.kind # "missing"

\* open(filename) succeeds
CanOpen(f) == f.kind = "file"

\* variant: resources.get('config_dir', '') instead of the subscript
ConfigDirGet(res) == "ok"

\* config_dir = resources['config_dir']
ConfigDirLookup(res) == IF res.config_dir = Missing THEN "KeyError" ELSE "ok"

\* variant: the `is None` test left out, the hash taken on every call
NeedDefaultHashAlways(path, cached) == path

\* DEFAULT_STATIC_FILES_PATH and self._default_css_hash is None
NeedDefaultHash(path, cached) == path /\ cached = None

\* variant: a custom.css counts as modified only against a known default
DiffersFromKnown(custom_hash, cached) == cached # None /\ custom_hash # cached

\* self._hash(custom_css_filename) != self._default_css_hash
Differs(custom_hash, cached) == custom_hash # cached

\* header = []; header.append(sheet); header.append(pygments_css)
HeaderStart(sheet, pygments_css) == << sheet, pygments_css >>

\* variant: header.insert(0, f.read())
HeaderCustomFirst(header, custom_text) == << custom_text >> \o header

\* header.append(f.read()) of the custom stylesheet
HeaderWithCustom(header, custom_text) == Append(header, custom_text)

\* What one run of _generate_header does: how it ends, the header built up
\* to that point, the hash field it leaves, and whether it hashed default_css.
GenerateHeader(res, cached) ==
    LET raised(err, hdr, h, hashed) ==
            [status |-> err, header |-> hdr, hash |-> h, hashed_default |-> hashed]
        returned(hdr, h, hashed) ==
            [status |-> "ok", header |-> hdr, hash |-> h, hashed_default |-> hashed]
        header == HeaderStart(STYLE_MIN_CSS, get_style_defs(highlight_class))
        need   == NeedDefaultHash(static_files_path, cached)
        cache2 == IF need THEN Hash(default_css.bytes) ELSE cached
    IN  IF ~sheetReadable
          THEN raised("IOError", << >>, cached, FALSE)
        ELSE IF ConfigDirLookup(res) # "ok"
          THEN raised(ConfigDirLookup(res), header, cached, FALSE)
        ELSE IF ~IsFile(custom_css)
          THEN returned(header, cached, FALSE)
        ELSE IF need /\ ~CanOpen(default_css)
          THEN raised("IOError", header, cached, FALSE)
        ELSE IF ~CanOpen(custom_css)
          THEN raised("IOError", header, cache2, need)
        ELSE IF Differs(Hash(custom_css.bytes), cache2)
          THEN returned(HeaderWithCustom(header, Utf8Read(custom_css.bytes)), cache2, need)
        ELSE returned(header, cache2, need)

------------------------------------------------------------------------------
(* preprocess *)

\* resources['inlining'] = {}
ResetInlining(res) == [res EXCEPT !.inlining = EmptyInlining]

\* variant: the header is stored as it is built, so a raise leaves what
\* was read up to then
StoreHeaderAsBuilt(res, g) ==
    [res EXCEPT !.inlining.has_css = TRUE, !.inlining.css = g.header]

\* resources['inlining']['css'] = <the value _generate_header returned>;
\* when _generate_header raises, the assignment is never reached
StoreHeader(res, g) ==
    IF g.status = "ok"
    THEN [res EXCEPT !.inlining.has_css = TRUE, !.inlining.css = g.header]
    ELSE res

Idle == [outcome |-> "idle", nb_in |-> Missing, nb |-> Missing,
         resources_in |-> NoResources, hash_before |-> None,
         hashed_default |-> FALSE]

NoReference == [taken |-> FALSE, static_files_path |-> FALSE, default_css |-> NoFile,
                custom_css |-> NoFile, resources_in |-> NoResources, css |-> << >>]

\* the default reference as an input of a call: the file under
\* DEFAULT_STATIC_FILES_PATH, and no file when there is no such path
DefaultReference == IF static_files_path THEN default_css ELSE NoFile

PreprocessCall(nb, res) ==
    LET r0 == ResetInlining(res)
        g  == GenerateHeader(r0, default_css_hash)
    IN  /\ resources' = StoreHeader(r0, g)
        /\ default_css_hash' = g.hash
        /\ hashed_from' = IF g.hashed_default THEN default_css.bytes ELSE hashed_from
        /\ default_hash_count' = default_hash_count + (IF g.hashed_default THEN 1 ELSE 0)
        /\ call' = [outcome |-> g.status, nb_in |-> nb,
                    nb |-> IF g.status = "ok" THEN nb ELSE Missing,
                    resources_in |-> res, hash_before |-> default_css_hash,
                    hashed_default |-> g.hashed_default]
        /\ UNCHANGED env

Preprocess(nb, res) ==
    /\ PreprocessCall(nb, res)
    /\ UNCHANGED reference

\* The same call, which the history keeps as the reference call when it is
\* the first of the instance to succeed.
PreprocessRecorded(nb, res) ==
    /\ PreprocessCall(nb, res)
    /\ reference' =
          IF ~reference.taken /\ call'.outcome = "ok"
          THEN [taken |-> TRUE, static_files_path |-> static_files_path,
                default_css |-> DefaultReference, custom_css |-> custom_css,
                resources_in |-> res, css |-> resources'.inlining.css]
          ELSE reference

------------------------------------------------------------------------------
(* The world around the instance.  A change of the world ends the caller's  *)
(* look at the last call.                                                   *)

Forget ==
    /\ call' = Idle
    /\ resources' = NoResources
    /\ UNCHANGED << default_css_hash, hashed_from, default_hash_count, reference >>

\* the user writes, removes or locks <config_dir>/custom/custom.css
SetCustomCss(f) ==
    /\ f # custom_css
    /\ custom_css' = f
    /\ Forget
    /\ UNCHANGED << universalNewlines, sheetReadable, static_files_path, default_css >>

\* the notebook package's custom.css is written, removed or locked
SetDefaultCss(f) ==
    /\ f # default_css
    /\ default_css' = f
    /\ Forget
    /\ UNCHANGED << universalNewlines, sheetReadable, static_files_path, custom_css >>

\* the notebook package becomes importable, or stops being so
SetStaticFilesPath(b) ==
    /\ b # static_files_path
    /\ static_files_path' = b
    /\ Forget
    /\ UNCHANGED << universalNewlines, sheetReadable, default_css, custom_css >>

\* style.min.css is installed or removed
SetStyleSheet(b) ==
    /\ b # sheetReadable
    /\ sheetReadable' = b
    /\ Forget
    /\ UNCHANGED << universalNewlines, static_files_path, default_css, custom_css >>

------------------------------------------------------------------------------

Init ==
    /\ universalNewlines \in BOOLEAN
    /\ sheetReadable = TRUE
    /\ static_files_path \in BOOLEAN
    /\ default_css \in Files
    /\ custom_css \in Files
    /\ default_css_hash = None
    /\ hashed_from = << >>
    /\ default_hash_count = 0
    /\ resources = NoResources
    /\ call = Idle
    /\ reference = NoReference

Next ==
    \/ \E nb \in Notebooks, res \in ResourcesInputs : Preprocess(nb, res)
    \/ \E f \in Files : SetCustomCss(f)
    \/ \E f \in Files : SetDefaultCss(f)
    \/ \E b \in BOOLEAN : SetStaticFilesPath(b)
    \/ \E b \in BOOLEAN : SetStyleSheet(b)

Spec == Init /\ [][Next]_vars

\* The same program, with the reference call recorded.
NextDet ==
    \/ \E nb \in Notebooks, res \in ResourcesInputs : PreprocessRecorded(nb, res)
    \/ \E f \in Files : SetCustomCss(f)
    \/ \E f \in Files : SetDefaultCss(f)
    \/ \E b \in BOOLEAN : SetStaticFilesPath(b)
    \/ \E b \in BOOLEAN : SetStyleSheet(b)

SpecDet == Init /\ [][NextDet]_vars

------------------------------------------------------------------------------
(* Properties *)

Readable(f) == f.kind = "file"

Called    == call.outcome # "idle"
Succeeded == call.outcome = "ok"
Failed    == call.outcome \in {"KeyError", "IOError"}
css       == resources.inlining.css
Included  == Succeeded /\ Len(css) = 3
HadConfigDir == call.resources_in.config_dir # Missing

\* the call ran with a default reference whose bytes are the ones the cached
\* hash was taken from: the field was unset before the call, or set from them
ComparedWithDefault ==
    /\ static_files_path
    /\ Readable(default_css)
    /\ default_css_hash # None
    /\ hashed_from = default_css.bytes

\* C1: with a default reference of bytes D (the cached hash unset or taken
\* from D) and an existing custom.css, the custom stylesheet is left out
\* when its bytes are exactly D and put in when they differ from D in any
\* byte, a line-ending byte included.
C1_RawByteChangeDetection ==
    (Succeeded /\ Readable(custom_css) /\ ComparedWithDefault)
        => (Included <=> custom_css.bytes # default_css.bytes)

\* C2: a call without default reference, with an existing custom.css, puts
\* the custom stylesheet in whatever its content, also after an earlier call
\* of the instance cached a default hash.
C2_NoBaselineFallback ==
    (Called /\ ~static_files_path /\ Readable(custom_css) /\ sheetReadable /\ HadConfigDir)
        => (Included /\ css[3] = Utf8Read(custom_css.bytes))

\* C3: a successful call stores 2 or 3 blocks: the base stylesheet first,
\* the highlighting CSS second, and the custom CSS text, if any, third.
C3_Ordering ==
    Succeeded =>
        /\ resources.inlining.has_css
        /\ Len(css) \in {2, 3}
        /\ css[1] = STYLE_MIN_CSS
        /\ css[2] = get_style_defs(highlight_class)
        /\ Len(css) = 3 => (Readable(custom_css) /\ css[3] = Utf8Read(custom_css.bytes))

C3_Witness == Included /\ custom_css.bytes # << >>

\* C4: the default hash is computed at most once, by the first call that has
\* a default reference it can open and an existing custom.css; a call that
\* finds the field set neither hashes the default file again nor changes the
\* field, whatever the default file holds by then.
C4_HashMemoization ==
    /\ default_hash_count <= 1
    /\ default_css_hash # None <=> default_hash_count = 1
    /\ default_css_hash # None => default_css_hash = Hash(hashed_from)
    /\ (Called /\ call.hash_before # None)
          => (default_css_hash = call.hash_before /\ ~call.hashed_default)
    /\ (Called /\ sheetReadable /\ HadConfigDir /\ custom_css # NoFile
          /\ static_files_path /\ Readable(default_css))
          => default_css_hash # None

\* a later call, after the default file changed: the old hash is still there
C4_Witness ==
    /\ Succeeded /\ custom_css # NoFile /\ static_files_path /\ Readable(default_css)
    /\ call.hash_before # None
    /\ Hash(default_css.bytes) # default_css_hash

\* C5: with the base stylesheet readable, config_dir given and no custom.css,
\* the call succeeds with exactly the two blocks, default reference or not,
\* readable or not; it does not hash the default file and leaves the field.
C5_MissingCustomFile ==
    (Called /\ sheetReadable /\ HadConfigDir /\ custom_css = NoFile)
        => /\ Succeeded
           /\ css = << STYLE_MIN_CSS, get_style_defs(highlight_class) >>
           /\ ~call.hashed_default
           /\ default_css_hash = call.hash_before

C5_Witness ==
    /\ Succeeded /\ custom_css = NoFile
    /\ static_files_path /\ ~Readable(default_css)
    /\ default_css_hash = None

\* the inputs of the last call are those of the reference call
SameInputsAsReference ==
    /\ reference.taken
    /\ reference.static_files_path = static_files_path
    /\ reference.default_css = DefaultReference
    /\ reference.custom_css = custom_css
    /\ reference.resources_in = call.resources_in

\* C6: two successful calls of one instance with the same inputs store the
\* same blocks; the state of the cached hash does not change the result.
C6_Determinism ==
    (Succeeded /\ SameInputsAsReference) => css = reference.css

\* C7 as claimed: a call without 'config_dir' fails with the configuration
\* error (the KeyError of the subscript) whatever the state of the files.
C7_ConfigErrorAlways ==
    (Called /\ ~HadConfigDir)
        => (call.outcome = "KeyError" /\ ~resources.inlining.has_css)

\* C7: a call without 'config_dir' fails and stores no blocks; the failure
\* is the KeyError when the base stylesheet can be read, whatever the state
\* of custom.css and of the default reference, and the IOError of the base
\* stylesheet when it cannot.
C7_MissingConfigDir ==
    (Called /\ ~HadConfigDir)
        => /\ Failed
           /\ ~resources.inlining.has_css
           /\ call.nb = Missing
           /\ sheetReadable => call.outcome = "KeyError"
           /\ ~sheetReadable => call.outcome = "IOError"

C7_Witness ==
    /\ call.outcome = "KeyError" /\ ~HadConfigDir
    /\ custom_css = Unreadable /\ static_files_path /\ ~Readable(default_css)

\* the blocks a call that decided with the field as it is now has to store
CompleteBlocks ==
    IF Readable(custom_css) /\ Hash(custom_css.bytes) # default_css_hash
    THEN << STYLE_MIN_CSS, get_style_defs(highlight_class), Utf8Read(custom_css.bytes) >>
    ELSE << STYLE_MIN_CSS, get_style_defs(highlight_class) >>

\* C8: a call either succeeds and has stored the complete blocks, or fails
\* and has stored no blocks at all; it fails when the base stylesheet cannot
\* be read and when an existing custom.css cannot be read.
C8_NoPartialSuccess ==
    /\ Called => \/ Succeeded /\ resources.inlining.has_css /\ css = CompleteBlocks
                 \/ Failed /\ ~resources.inlining.has_css /\ css = << >>
    /\ (Called /\ ~sheetReadable) => call.outcome = "IOError"
    /\ (Called /\ sheetReadable /\ HadConfigDir /\ custom_css = Unreadable)
          => call.outcome = "IOError"

\* the custom.css was there but could not be read, and the dict came with blocks
C8_Witness ==
    /\ call.outcome = "IOError" /\ sheetReadable /\ HadConfigDir
    /\ custom_css = Unreadable
    /\ call.resources_in.inlining.has_css

\* C9: a successful call changes only resources['inlining']['css']: every
\* other entry, those under resources['inlining'] included, is as it was,
\* and the notebook comes back as it went in.
C9_ResourcesFrame ==
    Succeeded =>
        /\ resources.inlining.has_css
        /\ resources.config_dir = call.resources_in.config_dir
        /\ resources.metadata = call.resources_in.metadata
        /\ resources.inlining.js = call.resources_in.inlining.js
        /\ call.nb = call.nb_in

\* C10: whenever a call succeeds with an existing custom.css, it has put the
\* custom stylesheet in exactly when the hash of the file as it is at that
\* call differs from the cached default hash: nothing of an earlier call's
\* candidate or decision enters.
C10_CandidateHashedAfresh ==
    (Succeeded /\ custom_css # NoFile)
        => (Included <=> Hash(custom_css.bytes) # default_css_hash)

\* a later call of the instance (the field was set before it) that puts in
\* a custom.css the instance's default hash does not match
C10_Witness ==
    /\ Included /\ call.hash_before # None /\ ~call.hashed_default
    /\ custom_css.bytes # hashed_from

====
